---------------------------- MODULE Spec2Model ----------------------------
(***************************************************************************)
(* Model of batch_job/job_settings.py: the capability resolver             *)
(* (import_string / cached_import), the settings resolver                  *)
(* (convert_settings), the settings registry (JobSettingsFactory.create)   *)
(* and the identity deriver / record factory (JobSettings.get_job_partition*)
(* get_job_id, create_info).                                               *)
(*                                                                         *)
(* Python strings are sequences of one-character strings, so that          *)
(* rsplit, str(), int(), float(), strftime and str.format are computed     *)
(* character by character.  Python values carry their type tag.            *)
(***************************************************************************)
EXTENDS Integers, Sequences, FiniteSets, TLC

(***************************************************************************)
(* Bounds of the model.                                                    *)
(***************************************************************************)
\* Largest clock instant (in hours after the epoch of Epoch below).
MaxClock == 1
\* Largest number of Run Records kept side by side for comparison.
MaxInfos == 2
\* Largest number of optional keys present in one raw settings mapping.
MaxOverrides == 1

(***************************************************************************)
(* String literals used by the program and by the inputs.                  *)
(***************************************************************************)
s_batch_job   == <<"b","a","t","c","h","_","j","o","b">>
s_base_job    == <<"b","a","s","e","_","j","o","b">>
s_BaseJob     == <<"B","a","s","e","J","o","b">>
s_colorsys    == <<"c","o","l","o","r","s","y","s">>
s_rgb_to_hsv  == <<"r","g","b","_","t","o","_","h","s","v">>
s_sys         == <<"s","y","s">>
s_nomod       == <<"n","o","m","o","d">>
s_Nope        == <<"N","o","p","e">>
s_run         == <<"r","u","n">>
s_ingest      == <<"i","n","g","e","s","t">>
s_dot         == <<".">>
s_underscore  == <<"_">>
s_None        == <<"N","o","n","e">>
s_True        == <<"T","r","u","e">>
s_False       == <<"F","a","l","s","e">>
s_batch_job_base_job == s_batch_job \o s_dot \o s_base_job
\* 'batch_job.base_job.BaseJob', the literal of JobSettingsFactory.create
s_default_job_class == s_batch_job_base_job \o s_dot \o s_BaseJob
\* '%Y%m%d', the default date_format of convert_settings
s_default_date_format == <<"%","Y","%","m","%","d">>

(***************************************************************************)
(* Python values and call outcomes.                                        *)
(***************************************************************************)
PyNone     == [t |-> "NoneType"]
PyInt(n)   == [t |-> "int", v |-> n]
PyStr(s)   == [t |-> "str", v |-> s]
PyBool(b)  == [t |-> "bool", v |-> b]
\* A float with one decimal digit: the value is tenths / 10.
PyFloat(tenths) == [t |-> "float", v |-> tenths]

\* A call that returns val.
Return(val) == [ok |-> TRUE, val |-> val]
\* A call that raises exception class exc; msg tells the raise sites apart.
Raise(exc, msg) == [ok |-> FALSE, exc |-> exc, msg |-> msg]

(***************************************************************************)
(* Decimal conversions: str(int), int(str), float(str), str(float).        *)
(***************************************************************************)
Digits == <<"0","1","2","3","4","5","6","7","8","9">>
IsDigit(c) == \E d \in 1..10 : Digits[d] = c
DigitVal(c) == (CHOOSE d \in 1..10 : Digits[d] = c) - 1

RECURSIVE NatToStr(_)
NatToStr(n) == IF n < 10 THEN <<Digits[n + 1]>>
               ELSE NatToStr(n \div 10) \o <<Digits[(n % 10) + 1]>>

\* str(n) / '{0}'.format(n) for an int n
IntToStr(n) == IF n < 0 THEN <<"-">> \o NatToStr(-n) ELSE NatToStr(n)

\* n zero-padded to at least w digits (n >= 0), as strftime pads its fields
RECURSIVE ZeroPad(_, _)
ZeroPad(s, w) == IF Len(s) >= w THEN s ELSE ZeroPad(<<"0">> \o s, w)

AllDigits(s) == Len(s) > 0 /\ \A i \in 1..Len(s) : IsDigit(s[i])

RECURSIVE DigitsToNat(_)
DigitsToNat(s) == IF s = <<>> THEN 0
                  ELSE 10 * DigitsToNat(SubSeq(s, 1, Len(s) - 1)) + DigitVal(s[Len(s)])

HasSign(s) == Len(s) > 0 /\ s[1] \in {"+", "-"}
Unsigned(s) == IF HasSign(s) THEN Tail(s) ELSE s
SignOf(s) == IF Len(s) > 0 /\ s[1] = "-" THEN -1 ELSE 1

\* The literals int(str) accepts here: an optional sign and decimal digits
\* (strings with blanks or '_' digit separators are not among the inputs).
IsIntLiteral(s) == AllDigits(Unsigned(s))
ParseInt(s) == SignOf(s) * DigitsToNat(Unsigned(s))

\* Position of the first '.' of s, 0 when there is none.
FirstDot(s) == IF \E i \in 1..Len(s) : s[i] = "."
               THEN CHOOSE i \in 1..Len(s) : s[i] = "." /\ \A j \in 1..(i-1) : s[j] # "."
               ELSE 0

\* The literals float(str) accepts here: an optional sign, then digits, or
\* digits '.' digit with either side (not both) possibly empty; the floats
\* of the model have one decimal digit, so longer fractions are not inputs.
IsFloatLiteral(s) ==
    LET u == Unsigned(s)
        d == FirstDot(u)
    IN  IF d = 0 THEN AllDigits(u)
        ELSE /\ d = 1 \/ AllDigits(SubSeq(u, 1, d - 1))
             /\ d = Len(u) \/ (Len(u) = d + 1 /\ IsDigit(u[d + 1]))
             /\ Len(u) > 1
ParseFloatTenths(s) ==
    LET u == Unsigned(s)
        d == FirstDot(u)
    IN  IF d = 0 THEN SignOf(s) * 10 * DigitsToNat(u)
        ELSE SignOf(s) * (10 * DigitsToNat(SubSeq(u, 1, d - 1))
                            + (IF d = Len(u) THEN 0 ELSE DigitVal(u[d + 1])))

Abs(n) == IF n < 0 THEN -n ELSE n
\* int(float): truncation toward zero
TruncTenths(tenths) == IF tenths < 0 THEN -((-tenths) \div 10) ELSE tenths \div 10
\* str(float) of a float with one decimal digit, e.g. 25 -> "2.5", -5 -> "-0.5"
FloatToStr(tenths) ==
    (IF tenths < 0 THEN <<"-">> ELSE <<>>)
      \o NatToStr(Abs(tenths) \div 10) \o <<".">> \o NatToStr(Abs(tenths) % 10)

(***************************************************************************)
(* The builtin coercions int(), float(), str(), bool() that                *)
(* convert_settings applies to the raw values.                             *)
(***************************************************************************)
py_int(x) ==
    CASE x.t = "int"      -> Return(x.v)
      [] x.t = "bool"     -> Return(IF x.v THEN 1 ELSE 0)
      [] x.t = "float"    -> Return(TruncTenths(x.v))
      [] x.t = "str"      -> IF IsIntLiteral(x.v) THEN Return(ParseInt(x.v))
                             ELSE Raise("ValueError", "invalid literal for int()")
      [] x.t = "NoneType" -> Raise("TypeError", "int() argument")

\* float() returns the float in tenths
py_float(x) ==
    CASE x.t = "int"      -> Return(10 * x.v)
      [] x.t = "bool"     -> Return(IF x.v THEN 10 ELSE 0)
      [] x.t = "float"    -> Return(x.v)
      [] x.t = "str"      -> IF IsFloatLiteral(x.v) THEN Return(ParseFloatTenths(x.v))
                             ELSE Raise("ValueError", "could not convert string to float")
      [] x.t = "NoneType" -> Raise("TypeError", "float() argument")

py_str(x) ==
    CASE x.t = "int"      -> IntToStr(x.v)
      [] x.t = "bool"     -> (IF x.v THEN s_True ELSE s_False)
      [] x.t = "float"    -> FloatToStr(x.v)
      [] x.t = "str"      -> x.v
      [] x.t = "NoneType" -> s_None

py_bool(x) ==
    CASE x.t = "int"      -> x.v # 0
      [] x.t = "bool"     -> x.v
      [] x.t = "float"    -> x.v # 0
      [] x.t = "str"      -> x.v # <<>>
      [] x.t = "NoneType" -> FALSE

(***************************************************************************)
(* The module system seen by cached_import: the importable modules, their  *)
(* attributes, and sys.modules.                                            *)
(***************************************************************************)
\* Modules the import system can find: the package and module imported at
\* lines 7-8, and two standard modules (sys is builtin, colorsys is pure).
Importable == {s_batch_job, s_batch_job_base_job, s_sys, s_colorsys}
\* Modules with a __path__ (packages).
Packages == {s_batch_job}
\* Names a module's own code defines (those the model refers to).
ModuleAttrs(path) ==
    CASE path = s_batch_job          -> {<<"V","E","R","S","I","O","N","_","O","F","F","S","E","T">>, <<"R","E","V","I","S","I","O","N","_","O","F","F","S","E","T">>}
      [] path = s_batch_job_base_job -> {s_BaseJob, <<"B","a","s","e","J","o","b","I","n","p","u","t","s">>, <<"B","a","s","e","J","o","b","S","t","a","t","e","s">>}
      [] path = s_colorsys           -> {s_rgb_to_hsv}
      [] path = s_sys                -> {<<"m","o","d","u","l","e","s">>}
      [] OTHER                       -> {}

\* sys.modules once job_settings.py itself is imported (lines 1-10).
LoadedAtImport == {s_batch_job, s_batch_job_base_job, s_sys}
Ready == [initializing |-> FALSE]

\* Position of the last '.' of s, 0 when there is none.
LastDot(s) == IF \E i \in 1..Len(s) : s[i] = "."
              THEN CHOOSE i \in 1..Len(s) :
                       s[i] = "." /\ \A j \in (i+1)..Len(s) : s[j] # "."
              ELSE 0

\* The outcome of a call that also leaves sys.modules as mods.
Returned(val, mods) == [ok |-> TRUE, val |-> val, mods |-> mods]
Raised(exc, msg, mods) == [ok |-> FALSE, exc |-> exc, msg |-> msg, mods |-> mods]

\* The part of name before its last '.' ('' when there is none).
Parent(name) == SubSeq(name, 1, LastDot(name) - 1)

\* sys.modules once module name is loaded as well.
WithModule(mods, name) ==
    [m \in DOMAIN mods \cup {name} |-> IF m = name THEN Ready ELSE mods[m]]

\* The second half of importlib's _find_and_load_unlocked, once the parent
\* import has ended as up: the parent must be a package, the module must be
\* found, and it is executed and entered into sys.modules.
find_spec_and_load(name, parent, up) ==
    IF ~up.ok THEN up
    ELSE IF parent # <<>> /\ parent \notin Packages
         THEN Raised("ModuleNotFoundError", "is not a package", up.mods)
    ELSE IF name \notin Importable
         THEN Raised("ModuleNotFoundError", "No module named", up.mods)
    ELSE Returned(name, WithModule(up.mods, name))

\* importlib's _find_and_load: a module already in sys.modules is returned;
\* otherwise its parent (if it has one) is imported first.
RECURSIVE find_and_load(_, _)
find_and_load(name, mods) ==
    IF name \in DOMAIN mods THEN Returned(name, mods)
    ELSE find_spec_and_load(name, Parent(name),
                            IF Parent(name) # <<>> THEN find_and_load(Parent(name), mods)
                            ELSE Returned(<<>>, mods))

\* importlib.import_module(name) without a package argument
import_module(name, mods) ==
    IF name = <<>> THEN Raised("ValueError", "Empty module name", mods)
    ELSE IF name[1] = "."
         THEN Raised("TypeError", "the 'package' argument is required", mods)
    ELSE find_and_load(name, mods)

\* getattr(module, name): a name the module defines, or a loaded submodule
HasAttr(path, name, mods) ==
    \/ name \in ModuleAttrs(path)
    \/ (path \o s_dot \o name) \in DOMAIN mods

\* The object bound to attribute name of module path.
Symbol(path, name) == [module |-> path, name |-> name]

\* line 21: getattr(module, class_name) on the outcome of the import
getattr_module(module_path, class_name, loaded) ==
    IF ~loaded.ok THEN loaded
    ELSE IF HasAttr(module_path, class_name, loaded.mods)
         THEN Returned(Symbol(module_path, class_name), loaded.mods)
         ELSE Raised("AttributeError", "module has no attribute", loaded.mods)

cached_import(module_path, class_name, mods) ==
    getattr_module(module_path, class_name,
                   IF /\ module_path \in DOMAIN mods
                      /\ mods[module_path].initializing = FALSE
                   THEN Returned(module_path, mods)
                   ELSE import_module(module_path, mods))

\* lines 36-37: an AttributeError of cached_import becomes an ImportError,
\* any other outcome passes through
reraise_import_error(r) ==
    IF ~r.ok /\ r.exc = "AttributeError"
    THEN Raised("ImportError", "does not define attribute/class", r.mods)
    ELSE r

import_string(dotted_path, mods) ==
    IF dotted_path.t # "str"
    THEN Raised("AttributeError", "object has no attribute 'rsplit'", mods)
    ELSE IF LastDot(dotted_path.v) = 0
         THEN Raised("ImportError", "doesn't look like a module path", mods)
         ELSE reraise_import_error(
                  cached_import(SubSeq(dotted_path.v, 1, LastDot(dotted_path.v) - 1),
                                SubSeq(dotted_path.v, LastDot(dotted_path.v) + 1,
                                       Len(dotted_path.v)),
                                mods))

(***************************************************************************)
(* JobSettings and convert_settings.                                       *)
(***************************************************************************)
\* batch_job.job_schedule.schedule_from_crontab: no schedule for None, a
\* JobSchedule built from the crontab text otherwise.
schedule_from_crontab(crontab) ==
    IF crontab = PyNone THEN PyNone ELSE [t |-> "JobSchedule", v |-> crontab.v]

\* JobSettings.__init__
JobSettings(job_schedule, date_format, max_failures, max_consecutive_failures, expire_hours, batch_size, process_interval_in_seconds, job_class, job_type, job_version, require_lock) ==
    [job_schedule |-> job_schedule,
     date_format |-> date_format,
     max_failures |-> max_failures,
     max_consecutive_failures |-> max_consecutive_failures,
     expire_hours |-> expire_hours,
     batch_size |-> batch_size,
     process_interval_in_seconds |-> process_interval_in_seconds,
     job_class |-> job_class,
     job_type |-> job_type,
     job_version |-> job_version,
     require_lock |-> require_lock]

\* dict.get(key, default)
Get(d, key, default) == IF key \in DOMAIN d THEN d[key] ELSE default

Min(S) == CHOOSE x \in S : \A y \in S : x <= y

\* Mutant of Default: a wrong default for expire_hours.
Default_expire_12(key) ==
    CASE key = "job_schedule" -> PyNone
      [] key = "date_format" -> PyStr(s_default_date_format)
      [] key = "max_failures" -> PyInt(20)
      [] key = "max_consecutive_failures" -> PyInt(5)
      [] key = "expire_hours" -> PyInt(12)
      [] key = "batch_size" -> PyInt(1000)
      [] key = "process_interval_in_seconds" -> PyInt(0)
      [] key = "job_class" -> PyNone
      [] key = "job_type" -> PyNone
      [] key = "job_version" -> PyInt(1)
      [] key = "require_lock" -> PyBool(FALSE)

\* The defaults convert_settings passes to raw_settings.get (lines 95-105);
\* job_class and job_type are read without one, so get gives None.
Default(key) ==
    CASE key = "job_schedule" -> PyNone
      [] key = "date_format" -> PyStr(s_default_date_format)
      [] key = "max_failures" -> PyInt(20)
      [] key = "max_consecutive_failures" -> PyInt(5)
      [] key = "expire_hours" -> PyInt(24)
      [] key = "batch_size" -> PyInt(1000)
      [] key = "process_interval_in_seconds" -> PyInt(0)
      [] key = "job_class" -> PyNone
      [] key = "job_type" -> PyNone
      [] key = "job_version" -> PyInt(1)
      [] key = "require_lock" -> PyBool(FALSE)

\* The coercion convert_settings applies to the value read under key.
Coerce(key, x) ==
    CASE key = "job_schedule" -> Return(schedule_from_crontab(x))
      [] key \in {"date_format", "job_type"} -> Return(py_str(x))
      [] key \in {"max_failures", "max_consecutive_failures", "expire_hours",
                  "batch_size", "job_version"} -> py_int(x)
      [] key = "process_interval_in_seconds" -> py_float(x)
      [] key = "require_lock" -> Return(py_bool(x))

\* The statements of convert_settings that can raise, in source order
\* (lines 97-102 and 104); str(), bool() never raise.
RaisingSteps == <<"max_failures", "max_consecutive_failures", "expire_hours",
                  "batch_size", "process_interval_in_seconds", "job_class",
                  "job_version">>

\* The end of convert_settings, given the outcome c[key] of each coercion
\* and the outcome job_class of import_string: the first statement that
\* raised ends the call; otherwise the JobSettings is constructed.
construct(mods, c, job_class) ==
    LET outcome(key) == IF key = "job_class" THEN job_class ELSE c[key]
        failed == {i \in 1..Len(RaisingSteps) : ~outcome(RaisingSteps[i]).ok}
    IN  IF failed # {}
        THEN Raised(outcome(RaisingSteps[Min(failed)]).exc,
                    outcome(RaisingSteps[Min(failed)]).msg,
                    IF Min(failed) < 6 THEN mods ELSE job_class.mods)
        ELSE Returned(JobSettings(c["job_schedule"].val, c["date_format"].val,
                                  c["max_failures"].val,
                                  c["max_consecutive_failures"].val,
                                  c["expire_hours"].val, c["batch_size"].val,
                                  c["process_interval_in_seconds"].val,
                                  job_class.val, c["job_type"].val,
                                  c["job_version"].val, c["require_lock"].val),
                      job_class.mods)

SettingKeys == {"job_schedule", "date_format", "max_failures",
                "max_consecutive_failures", "expire_hours", "batch_size",
                "process_interval_in_seconds", "job_type", "job_version",
                "require_lock"}

convert_settings(raw_settings, mods) ==
    construct(mods,
              [key \in SettingKeys |-> Coerce(key, Get(raw_settings, key, Default(key)))],
              import_string(Get(raw_settings, "job_class", Default("job_class")), mods))

\* Mutant of create: an unknown name is an error.
create_known_only(table, friendly_job_name, mods) ==
    IF friendly_job_name \in DOMAIN table
    THEN convert_settings(table[friendly_job_name], mods)
    ELSE Raised("KeyError", "unknown job name", mods)

\* JobSettingsFactory.create on the table all_settings
create(table, friendly_job_name, mods) ==
    convert_settings(
        IF friendly_job_name \in DOMAIN table
        THEN table[friendly_job_name]
        ELSE [k \in {"job_class", "job_type"} |->
                 IF k = "job_class" THEN PyStr(s_default_job_class)
                 ELSE PyStr(friendly_job_name)],
        mods)

(***************************************************************************)
(* The clock and datetime.strftime.                                        *)
(***************************************************************************)
\* A datetime, to the hour.
DateTime(year, month, day, hour) ==
    [year |-> year, month |-> month, day |-> day, hour |-> hour]

IsLeap(y) == (y % 4 = 0 /\ y % 100 # 0) \/ y % 400 = 0
DaysInMonth(y, m) ==
    IF m = 2 THEN (IF IsLeap(y) THEN 29 ELSE 28)
    ELSE IF m \in {4, 6, 9, 11} THEN 30 ELSE 31

NextDay(d) ==
    IF d.day < DaysInMonth(d.year, d.month) THEN [d EXCEPT !.day = d.day + 1]
    ELSE IF d.month < 12 THEN [d EXCEPT !.day = 1, !.month = d.month + 1]
    ELSE [d EXCEPT !.day = 1, !.month = 1, !.year = d.year + 1]

RECURSIVE AddHours(_, _)
AddHours(d, h) ==
    IF h = 0 THEN d
    ELSE IF d.hour < 23 THEN AddHours([d EXCEPT !.hour = d.hour + 1], h - 1)
    ELSE AddHours([NextDay(d) EXCEPT !.hour = 0], h - 1)

\* The UTC datetime of clock instant 0; the clock counts hours from it, so
\* that the instants of the model cross a day, a month and a year.
Epoch == DateTime(2024, 12, 31, 23)
\* datetime.now(timezone.utc) read at clock instant t
utcnow(t) == AddHours(Epoch, t)

\* One strftime directive (the directives with a platform-independent,
\* fixed-width numeric expansion, and '%%').
Directive(d, c) ==
    IF c = "%" THEN <<"%">>
    ELSE IF c \in {"Y", "m", "d", "H"}
         THEN ZeroPad(NatToStr(CASE c = "Y" -> d.year [] c = "m" -> d.month
                                 [] c = "d" -> d.day [] c = "H" -> d.hour),
                      IF c = "Y" THEN 4 ELSE 2)
         ELSE <<"%", c>>

\* run_date.strftime(format)
RECURSIVE strftime(_, _)
strftime(d, format) ==
    IF format = <<>> THEN <<>>
    ELSE IF format[1] = "%" /\ Len(format) >= 2
         THEN Directive(d, format[2]) \o strftime(d, SubSeq(format, 3, Len(format)))
         ELSE <<format[1]>> \o strftime(d, Tail(format))

(***************************************************************************)
(* Identity deriver and record factory.                                    *)
(***************************************************************************)
\* batch_job.VERSION_OFFSET and batch_job.REVISION_OFFSET (imported at line 7)
VERSION_OFFSET == 100
REVISION_OFFSET == 1

\* Mutant of get_job_partition: the version is written without the offset.
get_job_partition_no_offset(self) ==
    self.job_type \o s_underscore \o IntToStr(self.job_version)

\* JobSettings.get_job_partition
get_job_partition(self) ==
    self.job_type \o s_underscore \o IntToStr(self.job_version + VERSION_OFFSET)

\* Mutant of get_job_id: the revision is left out of the row key.
get_job_id_no_revision(self, run_date, revision) ==
    strftime(run_date, self.date_format) \o s_underscore \o get_job_partition(self)

\* JobSettings.get_job_id
get_job_id(self, run_date, revision) ==
    strftime(run_date, self.date_format) \o s_underscore
      \o IntToStr(revision + REVISION_OFFSET) \o s_underscore
      \o get_job_partition(self)

\* BaseJobInputs(run_date=..., batch_size=..., process_interval=...)
BaseJobInputs(run_date, batch_size, process_interval) ==
    [cls |-> "BaseJobInputs",
     attrs |-> <<<<"run_date", run_date>>, <<"batch_size", batch_size>>,
                 <<"process_interval", process_interval>>>>]

\* BaseJobStates(last_processed=..., processed=..., skipped=...)
BaseJobStates(last_processed, processed, skipped) ==
    [cls |-> "BaseJobStates",
     attrs |-> <<<<"last_processed", last_processed>>, <<"processed", processed>>,
                 <<"skipped", skipped>>>>]

\* pickle.dumps: the class name followed by the instance's attributes
pickle_dumps(obj) == <<obj.cls>> \o obj.attrs
\* pickle.loads: the object a blob was made from
pickle_loads(blob) == [cls |-> blob[1], attrs |-> Tail(blob)]
\* obj.name of an unpickled object
Attr(obj, name) ==
    obj.attrs[CHOOSE i \in 1..Len(obj.attrs) : obj.attrs[i][1] = name][2]

\* Mutant of new_info: the inputs are pickled without the Settings'
\* process interval.
new_info_no_interval(self, revision, rd, t_create, t_update) ==
    [PartitionKey |-> get_job_partition(self),
     RowKey |-> get_job_id(self, rd, revision),
     revision |-> revision,
     inputs |-> pickle_dumps(BaseJobInputs(rd, self.batch_size, 0)),
     states |-> pickle_dumps(BaseJobStates(<<>>, 0, 0)),
     status |-> "Pending",
     create_time |-> utcnow(t_create),
     update_time |-> utcnow(t_update)]

\* The JobInfo of lines 68-78 for the run date rd.
new_info(self, revision, rd, t_create, t_update) ==
    [PartitionKey |-> get_job_partition(self),
     RowKey |-> get_job_id(self, rd, revision),
     revision |-> revision,
     inputs |-> pickle_dumps(BaseJobInputs(rd, self.batch_size,
                                           self.process_interval_in_seconds)),
     states |-> pickle_dumps(BaseJobStates(<<>>, 0, 0)),
     status |-> "Pending",
     create_time |-> utcnow(t_create),
     update_time |-> utcnow(t_update)]

\* Mutant of create_info: the run date is always read from the clock.
create_info_clock_date(self, revision, run_date, t_run, t_create, t_update) ==
    new_info(self, revision, utcnow(t_run), t_create, t_update)

\* JobSettings.create_info; t_run, t_create and t_update are the clock
\* instants at which the three datetime.now calls (lines 67, 77, 78) read
\* the clock.  A datetime is always true, None is false.
create_info(self, revision, run_date, t_run, t_create, t_update) ==
    new_info(self, revision,
             IF run_date = PyNone THEN utcnow(t_run) ELSE run_date,
             t_create, t_update)

(***************************************************************************)
(* Inputs.                                                                 *)
(***************************************************************************)
\* Dotted paths handed to import_string.
DottedPaths ==
    { s_default_job_class,                         \* loaded module, class
      s_colorsys \o s_dot \o s_rgb_to_hsv,         \* module loaded on demand
      s_batch_job_base_job,                        \* package, submodule
      s_BaseJob,                                   \* no separator
      <<>>,                                        \* empty
      s_nomod \o s_dot \o s_BaseJob,               \* no such module
      s_sys \o s_dot \o s_nomod \o s_dot \o s_BaseJob, \* parent is no package
      s_default_job_class \o s_dot \o s_run,       \* container is a class
      s_batch_job_base_job \o s_dot \o s_Nope,     \* no such attribute
      s_batch_job \o s_dot,                        \* empty attribute name
      s_dot \o s_BaseJob,                          \* empty container path
      s_dot \o s_dot \o s_base_job \o s_dot \o s_BaseJob }  \* relative path

\* Friendly job names handed to JobSettingsFactory.create.
JobNames == {s_ingest, <<"n","i","g","h","t","l","y">>, <<"b","r","o","k","e","n">>, <<"u","n","k","n","o","w","n","-","n","a","m","e">>, <<>>}

IntLike == {PyInt(0), PyInt(3), PyInt(-1), PyStr(<<"7">>), PyStr(<<"-","2">>), PyStr(<<"x">>),
            PyNone, PyBool(TRUE), PyFloat(25), PyFloat(-5)}

RequiredKeys == {"job_class", "job_type"}
OptionalKeys == {"job_schedule", "date_format", "max_failures",
                 "max_consecutive_failures", "expire_hours", "batch_size",
                 "process_interval_in_seconds", "job_version", "require_lock"}
AllKeys == RequiredKeys \cup OptionalKeys
\* The values a raw mapping may hold under each key.
Candidates ==
    [key \in AllKeys |->
    CASE key = "job_class" ->
             {PyStr(s_default_job_class), PyStr(s_colorsys \o s_dot \o s_rgb_to_hsv),
              PyStr(s_BaseJob), PyStr(s_nomod \o s_dot \o s_BaseJob),
              PyStr(s_batch_job_base_job \o s_dot \o s_Nope),
              PyStr(s_dot \o s_BaseJob), PyNone}
      [] key = "job_type" -> {PyStr(s_ingest), PyStr(<<"i","n","_","1">>), PyInt(7), PyNone}
      [] key = "job_schedule" -> {PyNone, PyStr(<<"0"," ","0"," ","*"," ","*"," ","*">>)}
      [] key = "date_format" ->
             {PyStr(<<"%","Y","%","m","%","d","%","H">>), PyStr(<<"%","m","_","%","d">>), PyStr(<<>>), PyInt(5), PyNone}
      [] key \in {"max_failures", "max_consecutive_failures", "expire_hours",
                  "batch_size", "job_version"} -> IntLike
      [] key = "process_interval_in_seconds" ->
             {PyInt(2), PyInt(-1), PyFloat(5), PyFloat(-15), PyStr(<<"1",".","5">>),
              PyStr(<<".","5">>), PyStr(<<"x">>), PyNone, PyBool(TRUE)}
      [] key = "require_lock" ->
             {PyBool(TRUE), PyBool(FALSE), PyInt(0), PyInt(1), PyStr(<<>>),
              PyStr(<<"n","o">>), PyNone}]

AllValues == UNION {Candidates[k] : k \in AllKeys}

\* The mappings over at most n of the keys.
Mappings(keys, n) ==
    UNION { {f \in [K -> AllValues] : \A k \in K : f[k] \in Candidates[k]} :
            K \in {K \in SUBSET keys : Cardinality(K) <= n} }

\* Raw settings mappings: any choice for the required keys (present or
\* absent), and at most MaxOverrides optional keys.
RawSettings ==
    { base @@ over : base \in Mappings(RequiredKeys, 2),
                     over \in Mappings(OptionalKeys, MaxOverrides) }

\* The minimal mapping of a job type.
Minimal(job_type) ==
    [k \in RequiredKeys |-> IF k = "job_class" THEN PyStr(s_default_job_class)
                            ELSE PyStr(job_type)]
With(raw, key, value) == [k \in {key} |-> value] @@ raw

\* Tables a JobSettingsFactory is constructed with.
Tables ==
    { [n \in {s_ingest, <<"n","i","g","h","t","l","y">>, <<"b","r","o","k","e","n">>} |->
          CASE n = s_ingest -> Minimal(s_ingest)
            [] n = <<"n","i","g","h","t","l","y">> ->
                  With(With(Minimal(<<"n","i","g","h","t">>), "batch_size", PyStr(<<"5","0">>)),
                       "job_class", PyStr(s_colorsys \o s_dot \o s_rgb_to_hsv))
            [] OTHER -> [k \in {"job_type"} |-> PyStr(<<"b","r","o","k","e","n">>)]],
      [n \in {<<>>} |-> With(Minimal(<<>>), "max_failures", PyInt(-1))],
      <<>> }

\* sys.modules when the first call is made: what importing job_settings.py
\* loaded, and possibly colorsys (some other code may have imported it).
InitialModules ==
    { [m \in L |-> Ready] : L \in {LoadedAtImport, LoadedAtImport \cup {s_colorsys}} }

Calls == {[op |-> "import_string", arg |-> PyStr(p)] : p \in DottedPaths}
           \cup {[op |-> "convert_settings", arg |-> r] : r \in RawSettings}
           \cup {[op |-> "create", arg |-> n] : n \in JobNames}

\* Settings values, run dates and revisions for create_info.
InfoRawSettings ==
    { Minimal(s_ingest),
      With(Minimal(s_ingest), "job_version", PyInt(2)),
      With(With(Minimal(<<"i","n","_","1">>), "date_format", PyStr(<<"%","Y","%","m","%","d","%","H">>)),
           "batch_size", PyInt(50)),
      With(With(Minimal(s_ingest), "date_format", PyStr(<<"%","m","_","%","d">>)),
           "process_interval_in_seconds", PyFloat(5)) }
RunDates == {DateTime(2024, 3, 5, 0), DateTime(2024, 3, 5, 13), DateTime(2025, 3, 5, 0)}
Revisions == {0, -2}

(***************************************************************************)
(* State.                                                                  *)
(***************************************************************************)
VARIABLES
    sys_modules,   \* sys.modules: loaded module path -> [initializing]
    all_settings,  \* JobSettingsFactory.all_settings
    call,          \* the resolver call under consideration: [op, arg]
    result,        \* its outcome, NotCalled before it is made
    settings,      \* the JobSettings value create_info is called on
    now,           \* the clock, in hours after Epoch
    infos          \* the create_info calls made: [revision, run_date, info]

vars == <<sys_modules, all_settings, call, result, settings, now, infos>>

NotCalled == [ok |-> FALSE, exc |-> "", msg |-> "not called"]
Outcome(r) == IF r.ok THEN Return(r.val) ELSE Raise(r.exc, r.msg)

(***************************************************************************)
(* The resolvers: one call of import_string, convert_settings or           *)
(* JobSettingsFactory.create, drawn at Init and applied (and re-applied:   *)
(* the registry resolves again on every call).                             *)
(***************************************************************************)
Init ==
    /\ sys_modules \in InitialModules
    /\ call \in Calls
    \* only create reads the registry's table
    /\ all_settings \in (IF call.op = "create" THEN Tables ELSE {<<>>})
    /\ result = NotCalled
    /\ settings = PyNone
    /\ now = 0
    /\ infos = {}

\* The call's outcome becomes the result, and sys.modules is as it left it.
Finish(r) ==
    /\ result' = Outcome(r)
    /\ sys_modules' = r.mods

ImportString ==
    /\ call.op = "import_string"
    /\ Finish(import_string(call.arg, sys_modules))
    /\ UNCHANGED <<all_settings, call, settings, now, infos>>

ConvertSettings ==
    /\ call.op = "convert_settings"
    /\ Finish(convert_settings(call.arg, sys_modules))
    /\ UNCHANGED <<all_settings, call, settings, now, infos>>

Create ==
    /\ call.op = "create"
    /\ Finish(create(all_settings, call.arg, sys_modules))
    /\ UNCHANGED <<all_settings, call, settings, now, infos>>

Next == ImportString \/ ConvertSettings \/ Create

Spec == Init /\ [][Next]_vars

(***************************************************************************)
(* The record factory: a JobSettings value resolved at startup, then       *)
(* create_info calls while the clock advances.                             *)
(***************************************************************************)
InitInfo ==
    /\ sys_modules = [m \in LoadedAtImport |-> Ready]
    /\ all_settings = <<>>
    /\ \E raw \in InfoRawSettings :
         /\ call = [op |-> "convert_settings", arg |-> raw]
         /\ result = Outcome(convert_settings(raw, sys_modules))
    /\ settings = result.val
    /\ now = 0
    /\ infos = {}

Tick ==
    /\ now < MaxClock
    /\ now' = now + 1
    /\ UNCHANGED <<sys_modules, all_settings, call, result, settings, infos>>

\* create_info(revision, run_date); the clock may advance between its reads.
CreateInfo ==
    /\ Cardinality(infos) < MaxInfos
    /\ \E revision \in Revisions, run_date \in RunDates \cup {PyNone} :
       \E t_run \in now..MaxClock :
       \E t_create \in t_run..MaxClock :
       \E t_update \in t_create..MaxClock :
         /\ run_date # PyNone => t_run = now
         /\ infos' = infos \cup
              {[revision |-> revision, run_date |-> run_date,
                info |-> create_info(settings, revision, run_date,
                                     t_run, t_create, t_update)]}
         /\ now' = t_update
    /\ UNCHANGED <<sys_modules, all_settings, call, result, settings>>

NextInfo == Tick \/ CreateInfo

SpecInfo == InitInfo /\ [][NextInfo]_vars
(***************************************************************************)
(* Properties of the resolvers (Spec).                                     *)
(***************************************************************************)
Called == result # NotCalled
Before(s, i) == SubSeq(s, 1, i - 1)
After(s, i) == SubSeq(s, i + 1, Len(s))

\* The defaults table of the documentation (docstring lines 91-92 and the
\* spec's section 4.2); process_interval_in_seconds in tenths.
DocumentedDefaults ==
    [job_schedule |-> PyNone,
     date_format |-> <<"%","Y","%","m","%","d">>,
     max_failures |-> 20,
     max_consecutive_failures |-> 5,
     expire_hours |-> 24,
     batch_size |-> 1000,
     process_interval_in_seconds |-> 0,
     require_lock |-> FALSE,
     job_version |-> 1]

\* The job_class values among the inputs that name an existing symbol.
Resolvable == {PyStr(s_default_job_class), PyStr(s_colorsys \o s_dot \o s_rgb_to_hsv)}

HoldsRequired(raw) ==
    /\ RequiredKeys \subseteq DOMAIN raw
    /\ raw["job_class"] \in Resolvable

\* C3: convert_settings on a mapping with only a resolvable job_class and a
\* job_type yields Settings with every other field at its documented
\* default; an optional key that is present overrides only its own field.
C3_Defaults ==
    (call.op = "convert_settings" /\ Called /\ HoldsRequired(call.arg))
      => /\ DOMAIN call.arg = RequiredKeys => result.ok
         /\ result.ok =>
              /\ \A k \in OptionalKeys \ DOMAIN call.arg :
                     result.val[k] = DocumentedDefaults[k]
              /\ \A k \in OptionalKeys \cap DOMAIN call.arg :
                     result.val[k] = Coerce(k, call.arg[k]).val
              /\ result.val.job_type = py_str(call.arg["job_type"])

C3_Witness ==
    /\ call.op = "convert_settings" /\ Called /\ result.ok
    /\ DOMAIN call.arg = RequiredKeys
    /\ result.val.max_failures = 20 /\ result.val.job_version = 1

\* C4: convert_settings fails on a mapping that lacks job_class, or lacks
\* job_type, or whose job_class cannot be resolved.
C4_RequiredKeys ==
    (call.op = "convert_settings" /\ Called /\ ~HoldsRequired(call.arg))
      => ~result.ok

\* C5: every Settings value convert_settings returns has max_failures,
\* max_consecutive_failures, expire_hours, batch_size and
\* process_interval_in_seconds >= 0.
C5_NonNegative ==
    (call.op = "convert_settings" /\ Called /\ result.ok)
      => /\ result.val.max_failures >= 0
         /\ result.val.max_consecutive_failures >= 0
         /\ result.val.expire_hours >= 0
         /\ result.val.batch_size >= 0
         /\ result.val.process_interval_in_seconds >= 0

\* C8: create(name) for a name that is no key of the table does not raise
\* and returns Settings with job_type = name, job_class BaseJob and the
\* other fields at their defaults; for a key it returns what
\* convert_settings makes of that key's raw mapping.
C8_RegistryCreate ==
    (call.op = "create" /\ Called)
      => IF call.arg \notin DOMAIN all_settings
         THEN /\ result.ok
              /\ result.val.job_type = call.arg
              /\ result.val.job_class = [module |-> s_batch_job_base_job, name |-> s_BaseJob]
              /\ \A k \in OptionalKeys : result.val[k] = DocumentedDefaults[k]
         ELSE result = Outcome(convert_settings(all_settings[call.arg], sys_modules))

C8_Witness ==
    /\ call.op = "create" /\ Called
    /\ call.arg = <<"u","n","k","n","o","w","n","-","n","a","m","e">>
    /\ call.arg \notin DOMAIN all_settings
    /\ all_settings # <<>>
    /\ result.ok

\* ResolutionError: the ImportError of a path without a separator.
IsResolutionError(r) ==
    ~r.ok /\ r.exc = "ImportError" /\ r.msg = "doesn't look like a module path"
\* NotFoundError: an ImportError (ModuleNotFoundError is a subclass) for a
\* container that cannot be loaded or a symbol it lacks.
IsNotFoundError(r) ==
    ~r.ok /\ r.exc \in {"ImportError", "ModuleNotFoundError"}
          /\ r.msg # "doesn't look like a module path"

\* C9: import_string has three outcomes: ResolutionError for an identifier
\* without '.', NotFoundError when the container cannot be loaded or lacks
\* the symbol, and otherwise exactly the named symbol.
C9_ThreeOutcomes ==
    (call.op = "import_string" /\ Called)
      => LET path == call.arg.v
             container == Before(path, LastDot(path))
             symbol == After(path, LastDot(path))
         IN  IF LastDot(path) = 0 THEN IsResolutionError(result)
             ELSE IF /\ container \in Importable
                     /\ \/ symbol \in ModuleAttrs(container)
                        \/ (container \o s_dot \o symbol) \in DOMAIN sys_modules
                  THEN result.ok /\ result.val = [module |-> container, name |-> symbol]
                  ELSE IsNotFoundError(result)

(***************************************************************************)
(* Properties of the identity deriver and the record factory (SpecInfo).   *)
(***************************************************************************)
\* Position of the last '_' of s, 0 when there is none.
LastUnderscore(s) == IF \E i \in 1..Len(s) : s[i] = "_"
                     THEN CHOOSE i \in 1..Len(s) :
                              s[i] = "_" /\ \A j \in (i+1)..Len(s) : s[j] # "_"
                     ELSE 0

\* The calls of create_info that passed a run date.
Explicit == {e \in infos : e.run_date # PyNone}
\* The run date a call worked with: the one of its pickled inputs.
RunDateOf(e) == Attr(pickle_loads(e.info.inputs), "run_date")

\* The partition key is job_type, '_', decimal(job_version + VERSION_OFFSET).
PartitionKeyFormat(self, pk) ==
    /\ LastUnderscore(pk) > 0
    /\ Before(pk, LastUnderscore(pk)) = self.job_type
    /\ IsIntLiteral(After(pk, LastUnderscore(pk)))
    /\ ParseInt(After(pk, LastUnderscore(pk))) = self.job_version + VERSION_OFFSET
    /\ After(pk, LastUnderscore(pk)) = IntToStr(self.job_version + VERSION_OFFSET)

\* head is the formatted run date, '_', decimal(revision + REVISION_OFFSET).
RowKeyHeadFormat(self, e, head) ==
    /\ LastUnderscore(head) > 0
    /\ Before(head, LastUnderscore(head)) = strftime(RunDateOf(e), self.date_format)
    /\ IsIntLiteral(After(head, LastUnderscore(head)))
    /\ ParseInt(After(head, LastUnderscore(head))) = e.revision + REVISION_OFFSET
    /\ After(head, LastUnderscore(head)) = IntToStr(e.revision + REVISION_OFFSET)

\* The row key is that head, '_', and the partition key.
RowKeyFormat(self, e, rk, pk) ==
    /\ Len(rk) > Len(pk) + 1
    /\ SubSeq(rk, Len(rk) - Len(pk) + 1, Len(rk)) = pk
    /\ rk[Len(rk) - Len(pk)] = "_"
    /\ RowKeyHeadFormat(self, e, SubSeq(rk, 1, Len(rk) - Len(pk) - 1))

\* C1: get_job_partition returns job_type, '_', decimal(job_version +
\* VERSION_OFFSET); get_job_id returns the formatted run date, '_',
\* decimal(revision + REVISION_OFFSET), '_', the partition key; ingest /
\* version 2 gives "ingest_102" and 2024-03-05 / revision 0 gives
\* "20240305_1_ingest_102".
C1_KeyFormat ==
    \A e \in infos :
        /\ PartitionKeyFormat(settings, e.info.PartitionKey)
        /\ RowKeyFormat(settings, e, e.info.RowKey, e.info.PartitionKey)
        /\ (settings.job_type = s_ingest /\ settings.job_version = 2)
              => e.info.PartitionKey = <<"i","n","g","e","s","t","_","1","0","2">>
        /\ (/\ settings.job_type = s_ingest /\ settings.job_version = 2
            /\ settings.date_format = <<"%","Y","%","m","%","d">>
            /\ e.run_date \in {DateTime(2024, 3, 5, h) : h \in 0..23}
            /\ e.revision = 0)
              => e.info.RowKey = <<"2","0","2","4","0","3","0","5","_","1","_","i","n","g","e","s","t","_","1","0","2">>

C1_Witness ==
    \E e \in infos : /\ e.info.RowKey = <<"2","0","2","4","0","3","0","5","_","1","_","i","n","g","e","s","t","_","1","0","2">>
                     /\ e.info.PartitionKey = <<"i","n","g","e","s","t","_","1","0","2">>

\* C2: two create_info calls with the same explicit run date and the same
\* revision return the same PartitionKey and the same RowKey, whatever the
\* clock read at the two calls.
C2_KeysIgnoreClock ==
    \A a \in Explicit : \A b \in Explicit :
        (a.run_date = b.run_date /\ a.revision = b.revision)
            => /\ a.info.PartitionKey = b.info.PartitionKey
               /\ a.info.RowKey = b.info.RowKey

C2_Witness ==
    \E a \in Explicit : \E b \in Explicit :
        /\ a.run_date = b.run_date /\ a.revision = b.revision
        /\ a.info.create_time.day # b.info.create_time.day
        /\ a.info.RowKey = b.info.RowKey

\* C6: in every record create_info returns, create_time equals update_time.
C6_CreateTimeIsUpdateTime ==
    \A e \in infos : e.info.create_time = e.info.update_time

\* C7: create_info with an explicit run date returns status Pending, the
\* revision passed in, inputs holding exactly that run date with the
\* Settings' batch_size and process_interval_in_seconds, states holding
\* last_processed "", processed 0, skipped 0; the Settings value is the one
\* that was constructed.
C7_RecordContents ==
    /\ settings = result.val
    /\ \A e \in Explicit :
        /\ e.info.status = "Pending"
        /\ e.info.revision = e.revision
        /\ pickle_loads(e.info.inputs) =
              [cls |-> "BaseJobInputs",
               attrs |-> <<<<"run_date", e.run_date>>,
                           <<"batch_size", settings.batch_size>>,
                           <<"process_interval", settings.process_interval_in_seconds>>>>]
        /\ pickle_loads(e.info.states) =
              [cls |-> "BaseJobStates",
               attrs |-> <<<<"last_processed", <<>>>>, <<"processed", 0>>,
                           <<"skipped", 0>>>>]

C7_Witness ==
    \E e \in Explicit : /\ settings.process_interval_in_seconds = 5
                        /\ e.revision = -2
                        /\ e.info.status = "Pending"

SameDay(d1, d2) == d1.year = d2.year /\ d1.month = d2.month /\ d1.day = d2.day

\* C10: two records of create_info calls on one Settings value with explicit
\* run dates have the same RowKey exactly when they have the same revision
\* and their run dates format to the same string under date_format; with
\* the default format, exactly when the run dates are on the same day.
C10_RowKeyUnique ==
    \A a \in Explicit : \A b \in Explicit :
        /\ (a.info.RowKey = b.info.RowKey)
              <=> (/\ a.revision = b.revision
                   /\ strftime(a.run_date, settings.date_format)
                        = strftime(b.run_date, settings.date_format))
        /\ settings.date_format = <<"%","Y","%","m","%","d">>
              => ((a.info.RowKey = b.info.RowKey)
                     <=> (a.revision = b.revision /\ SameDay(a.run_date, b.run_date)))

C10_Witness ==
    \E a \in Explicit : \E b \in Explicit :
        /\ a.run_date # b.run_date
        /\ a.revision = b.revision
        /\ settings.date_format = <<"%","Y","%","m","%","d">>
        /\ a.info.RowKey = b.info.RowKey

=============================================================================
